---- MODULE Spec2Model ----
(***************************************************************************)
(* Model of rspirv-cfg (src/src/lib.rs): the terminator classifier         *)
(* (Terminator::from_basic_block, successors, merge_block), the            *)
(* depth-first traversal (PetSpirv::traverse / traverse_from) and the dot  *)
(* emitter (PetSpirv::add_fn_to_dot).                                       *)
(*                                                                         *)
(* Two specifications share the module:                                    *)
(*   SpecClassify  one block is drawn, then classified and queried;        *)
(*   Spec          one function is drawn, PetSpirv::new builds the block   *)
(*                 index, then add_fn_to_dot or traverse runs on it.       *)
(* FairSpec is Spec with weak fairness of the program's steps.             *)
(***************************************************************************)
EXTENDS Integers, Sequences, FiniteSets, TLC

\* ------------------------------------------------------------------ bounds
\* Most blocks of a drawn function; block ids are 1..MaxBlocks.
MaxBlocks == 2
\* Most (value, target) pairs of a drawn OpSwitch.
MaxCases == 3
\* Width of usize in the model (Rust: 16, 32 or 64 bits; every width gives
\* the same result here, since every modelled length is far below 2^16).
UsizeBits == 16

\* ------------------------------------------------------------- data model
\* Option<T> is a set with at most one element.
None == {}
Some(x) == {x}

\* rspirv::dr::Operand, the two kinds the classifier extracts.
IdRef(id) == [kind |-> "IdRef", val |-> id]
LiteralInt32(v) == [kind |-> "LiteralInt32", val |-> v]

\* rspirv::dr::Instruction: opcode and operands.
Inst(op, operands) == [opcode |-> op, operands |-> operands]

\* rspirv::dr::Block: the label's result id and the instructions after it.
Block(label, insts) == [label |-> label, instructions |-> insts]

\* enum Terminator; Aborted stands for a panic inside the classifier.
End == [kind |-> "End"]
Branch(target) == [kind |-> "Branch", target |-> target]
BranchConditional(merge, t, f) ==
    [kind |-> "BranchConditional", merge_block |-> merge,
     true_block |-> t, false_block |-> f]
Switch(merge, values, targets) ==
    [kind |-> "Switch", merge_block |-> merge, values |-> values,
     targets |-> targets]
Aborted(why) == [kind |-> "Panic", why |-> why]

\* ---------------------------------------------------------------- helpers
\* usize subtraction: a panic with overflow checks (debug profile), a wrap
\* modulo 2^UsizeBits without them (release profile).
UsizeSub(a, b, overflow_checks) ==
    IF a >= b THEN [err |-> "", val |-> a - b]
    ELSE IF overflow_checks THEN [err |-> "overflow", val |-> 0]
    ELSE [err |-> "", val |-> (a - b) % (2 ^ UsizeBits)]

\* slice::get with a 0-based index.
Get(s, i) == IF i + 1 \in 1..Len(s) THEN Some(s[i + 1]) ELSE None

\* extract!(operands[i], kind) with a 0-based index: the index must exist
\* and the operand must be of the kind, else the macro or the index panics.
ExtractOk(operands, i, kind) ==
    /\ i + 1 \in 1..Len(operands)
    /\ operands[i + 1].kind = kind

\* iter().skip(k).step_by(2): the 1-based positions k+1, k+3, ...
SkipStep2(operands, k) ==
    LET n == IF Len(operands) > k THEN (Len(operands) - k + 1) \div 2 ELSE 0
    IN [j \in 1..n |-> operands[k + 2 * j - 1]]

\* the closure get_merge_block of from_basic_block
get_merge_block(bb, overflow_checks) ==
    LET idx == UsizeSub(Len(bb.instructions), 2, overflow_checks)
    IN IF idx.err # "" THEN [err |-> idx.err, opt |-> None]
       ELSE LET before_last == Get(bb.instructions, idx.val)
            IN IF before_last = None THEN [err |-> "", opt |-> None]
               ELSE LET i == CHOOSE x \in before_last : TRUE
                    IN IF i.opcode = "SelectionMerge"
                       THEN IF ExtractOk(i.operands, 0, "IdRef")
                            THEN [err |-> "", opt |-> Some(i.operands[1].val)]
                            ELSE [err |-> "extract", opt |-> None]
                       ELSE [err |-> "", opt |-> None]

\* Terminator::from_basic_block
from_basic_block(bb, overflow_checks) ==
    LET insts == bb.instructions
    IN IF Len(insts) = 0 THEN End
       ELSE LET inst == insts[Len(insts)]
                ops == inst.operands
            IN CASE inst.opcode = "Switch" ->
                      IF ~ExtractOk(ops, 1, "IdRef") THEN Aborted("extract")
                      ELSE LET m == get_merge_block(bb, overflow_checks)
                               vs == SkipStep2(ops, 2)
                               ts == SkipStep2(ops, 3)
                           IN IF m.err # "" THEN Aborted(m.err)
                              ELSE IF \E j \in 1..Len(vs) : vs[j].kind # "LiteralInt32"
                              THEN Aborted("extract")
                              ELSE IF \E j \in 1..Len(ts) : ts[j].kind # "IdRef"
                              THEN Aborted("extract")
                              ELSE Switch(m.opt,
                                          [j \in 1..Len(vs) |-> vs[j].val],
                                          Append([j \in 1..Len(ts) |-> ts[j].val],
                                                 ops[2].val))
                 [] inst.opcode = "BranchConditional" ->
                      LET m == get_merge_block(bb, overflow_checks)
                      IN IF m.err # "" THEN Aborted(m.err)
                         ELSE IF ~ExtractOk(ops, 1, "IdRef") \/ ~ExtractOk(ops, 2, "IdRef")
                         THEN Aborted("extract")
                         ELSE BranchConditional(m.opt, ops[2].val, ops[3].val)
                 [] inst.opcode = "Branch" ->
                      IF ~ExtractOk(ops, 0, "IdRef") THEN Aborted("extract")
                      ELSE Branch(ops[1].val)
                 [] OTHER -> End

\* successors as a slip would write it: the switch default first
successors_default_first(t) ==
    CASE t.kind = "Switch" ->
           <<t.targets[Len(t.targets)]>> \o SubSeq(t.targets, 1, Len(t.targets) - 1)
      [] t.kind = "Branch" -> <<t.target>>
      [] t.kind = "BranchConditional" -> <<t.false_block, t.true_block>>
      [] OTHER -> <<>>

\* successors as a slip would write it: the merge target counted as an edge
successors_and_merge(t) ==
    CASE t.kind = "Switch" ->
           t.targets \o (IF t.merge_block = None THEN <<>>
                         ELSE <<CHOOSE x \in t.merge_block : TRUE>>)
      [] t.kind = "Branch" -> <<t.target>>
      [] t.kind = "BranchConditional" ->
           <<t.true_block, t.false_block>> \o
           (IF t.merge_block = None THEN <<>>
            ELSE <<CHOOSE x \in t.merge_block : TRUE>>)
      [] OTHER -> <<>>

\* Terminator::successors
successors(t) ==
    CASE t.kind = "Switch" -> t.targets
      [] t.kind = "Branch" -> <<t.target>>
      [] t.kind = "BranchConditional" -> <<t.true_block, t.false_block>>
      [] OTHER -> <<>>

\* Terminator::merge_block
merge_block(t) ==
    CASE t.kind = "Switch" -> t.merge_block
      [] t.kind = "BranchConditional" -> t.merge_block
      [] OTHER -> None


\* ------------------------------------------------------------ instructions
\* The instructions the drawn blocks are built from (operand layout of the
\* SPIR-V binary form, as rspirv loads it).
OpReturn == Inst("Return", <<>>)
OpLoad == Inst("Load", <<IdRef(80), IdRef(81)>>)
OpSelectionMerge(m) ==
    Inst("SelectionMerge", <<IdRef(m), [kind |-> "SelectionControl", val |-> 0]>>)
OpBranch(t) == Inst("Branch", <<IdRef(t)>>)
OpBranchConditional(t, f) ==
    Inst("BranchConditional", <<IdRef(90), IdRef(t), IdRef(f)>>)
\* selector, default, then the (value, target) pairs
OpSwitch(d, values, targets) ==
    Inst("Switch",
         <<IdRef(91), IdRef(d)>> \o
         [k \in 1..(2 * Len(values)) |->
            IF k % 2 = 1 THEN LiteralInt32(values[(k + 1) \div 2])
                         ELSE IdRef(targets[k \div 2])])

\* Block ids of the drawn functions.
Ids == 1..MaxBlocks

\* Sequences over S of length exactly n.
SeqN(S, n) == [1..n -> S]

\* The case values of a drawn n-case switch: consecutive from a base.
CaseValues(n) == {[j \in 1..n |-> base + j] : base \in {10, 20}}

\* ------------------------------------------------------------------ state
VARIABLES
    overflow_checks,  \* build profile: usize overflow panics (debug) or wraps
    cblock,           \* SpecClassify: the block given to from_basic_block
    cstep,            \* SpecClassify: "drawn", "classified", "queried"
    term,             \* SpecClassify: from_basic_block(cblock)
    succ,             \* SpecClassify: term.successors() collected
    merge,            \* SpecClassify: term.merge_block()
    blocks,           \* Spec: function.blocks
    op,               \* Spec: the method run after PetSpirv::new
    block_map,        \* Spec: PetSpirv.block_map (BTreeMap<u32, &Block>)
    pc,               \* Spec: position of the run
    arg,              \* Spec: root_id of the traverse_from call being entered
    stack,            \* Spec: the traverse_from frames, innermost last
    visited,          \* Spec: the HashSet of traverse
    order,            \* Spec: the ids the callback was called with, in order
    nodes,            \* Spec: node declarations written, in order
    edges,            \* Spec: edge lines written, in order
    panic             \* Spec: "" or the cause of the abort

cvars == <<cblock, cstep, term, succ, merge>>
tvars == <<blocks, op, block_map, pc, arg, stack, visited, order, nodes, edges, panic>>
vars == <<overflow_checks, cblock, cstep, term, succ, merge, blocks, op, block_map,
          pc, arg, stack, visited, order, nodes, edges, panic>>

\* ---------------------------------------------------- SpecClassify: inputs
\* Last instructions of the drawn blocks: none needed for the empty block.
Terminators ==
    {OpReturn}
    \cup {OpBranch(t) : t \in Ids}
    \cup {OpBranchConditional(t, f) : t \in Ids, f \in Ids}
    \cup UNION {{OpSwitch(d, vs, ts) :
                    d \in Ids, vs \in CaseValues(n), ts \in SeqN(Ids, n)}
                : n \in 0..MaxCases}

\* What precedes the last instruction.
Prefixes ==
    {<<>>, <<OpLoad>>}
    \cup {<<OpSelectionMerge(m)>> : m \in Ids}
    \cup {<<OpLoad, OpSelectionMerge(m)>> : m \in Ids}
    \cup {<<OpSelectionMerge(m), OpLoad>> : m \in Ids}

\* Blocks whose operands do not have the shape the classifier extracts.
IllShaped ==
    {<<Inst("Branch", <<LiteralInt32(1)>>)>>,
     <<Inst("BranchConditional", <<IdRef(90), IdRef(1)>>)>>,
     <<OpLoad, Inst("Switch", <<IdRef(91)>>)>>}

ClassifyBlocks ==
    {Block(1, <<>>)}
    \cup {Block(1, p \o <<t>>) : p \in Prefixes, t \in Terminators}
    \cup {Block(1, i) : i \in IllShaped}

\* Values of the Spec variables while SpecClassify runs, and the reverse.
TIdle ==
    /\ blocks = <<>> /\ op = "none" /\ block_map = <<>> /\ pc = "idle"
    /\ arg = 0 /\ stack = <<>> /\ visited = {} /\ order = <<>>
    /\ nodes = <<>> /\ edges = <<>> /\ panic = ""

CIdle ==
    /\ cblock = Block(0, <<>>) /\ cstep = "idle" /\ term = End
    /\ succ = <<>> /\ merge = None

InitClassify ==
    /\ overflow_checks \in BOOLEAN
    /\ cblock \in ClassifyBlocks
    /\ cstep = "drawn" /\ term = End /\ succ = <<>> /\ merge = None
    /\ TIdle

\* let t = Terminator::from_basic_block(&cblock); a panic ends the run
Classify ==
    /\ cstep = "drawn"
    /\ term' = from_basic_block(cblock, overflow_checks)
    /\ cstep' = IF term'.kind = "Panic" THEN "panic" ELSE "classified"
    /\ UNCHANGED <<overflow_checks, cblock, succ, merge, tvars>>

\* t.successors().collect() and t.merge_block()
Query ==
    /\ cstep = "classified"
    /\ succ' = successors(term)
    /\ merge' = merge_block(term)
    /\ cstep' = "queried"
    /\ UNCHANGED <<overflow_checks, cblock, term, tvars>>

NextClassify == Classify \/ Query

SpecClassify == InitClassify /\ [][NextClassify]_vars


\* ------------------------------------------------------------ Spec: inputs
\* Instruction lists of the blocks of a drawn function.
Shapes ==
    {<<OpReturn>>}
    \cup {<<OpBranch(t)>> : t \in Ids}
    \cup {<<OpBranchConditional(t, f)>> : t \in Ids, f \in Ids}
    \cup {<<OpSelectionMerge(MaxBlocks), OpBranchConditional(t, f)>> :
            t \in Ids, f \in Ids}

\* A function of n blocks labelled 1..n in order; block 1 is the entry.
\* A target or merge id above n names no block of the function.
Drawn(n) == {[i \in 1..n |-> Block(i, f[i])] : f \in SeqN(Shapes, n)}

\* entry: if/else on 2 and 3 merging at 4; 2 and 3 branch to 4; 4 returns
Diamond ==
    <<Block(1, <<OpLoad, OpSelectionMerge(4), OpBranchConditional(2, 3)>>),
      Block(2, <<OpBranch(4)>>),
      Block(3, <<OpBranch(4)>>),
      Block(4, <<OpReturn>>)>>

\* entry: a switch in a loop body nested in an outer loop
SwitchLoops ==
    <<Block(1, <<OpBranch(2)>>),
      Block(2, <<OpLoad, OpSelectionMerge(4),
                 OpSwitch(4, <<10, 11>>, <<3, 3>>)>>),
      Block(3, <<OpLoad, OpBranchConditional(3, 2)>>),
      Block(4, <<OpLoad, OpBranchConditional(1, 5)>>),
      Block(5, <<OpReturn>>)>>

\* Every control-flow graph over three blocks whose blocks return, branch
\* or branch conditionally without a merge.
ThreeBlockCfgs ==
    LET T == 1..3
        S == {<<OpReturn>>}
             \cup {<<OpBranch(t)>> : t \in T}
             \cup {<<OpLoad, OpBranchConditional(t, f)>> : t \in T, f \in T}
    IN {[i \in T |-> Block(i, f[i])] : f \in SeqN(S, 3)}

Functions ==
    UNION {Drawn(n) : n \in 0..MaxBlocks}
    \cup ThreeBlockCfgs \cup {Diamond, SwitchLoops}

\* function.def.result_id, the node of the function itself
FnId == 0

\* Frames traverse_from may nest before the thread's stack is exhausted.
StackLimit == MaxBlocks + 4

Init ==
    /\ overflow_checks \in BOOLEAN
    /\ blocks \in Functions
    /\ op \in {"add_fn_to_dot", "traverse"}
    /\ block_map = <<>> /\ pc = "new"
    /\ arg = 0 /\ stack = <<>> /\ visited = {} /\ order = <<>>
    /\ nodes = <<>> /\ edges = <<>> /\ panic = ""
    /\ CIdle

\* PetSpirv::new: collect (label id, block) into the BTreeMap; a later
\* block with the same id replaces an earlier one.
New ==
    /\ pc = "new"
    /\ block_map' =
         [id \in {blocks[i].label : i \in 1..Len(blocks)} |->
            blocks[CHOOSE i \in 1..Len(blocks) :
                     /\ blocks[i].label = id
                     /\ \A j \in 1..Len(blocks) : blocks[j].label = id => j <= i]]
    /\ pc' = IF op = "add_fn_to_dot" THEN "header" ELSE "traverse"
    /\ UNCHANGED <<overflow_checks, cvars, blocks, op, arg, stack, visited,
                   order, nodes, edges, panic>>

\* get_block as a slip would write it: a missing id yields an empty block
get_block_or_empty(id) ==
    IF id \in DOMAIN block_map
    THEN [err |-> "", block |-> block_map[id]]
    ELSE [err |-> "", block |-> Block(id, <<>>)]

\* PetSpirv::get_block: the block, or a panic
get_block(id) ==
    IF id \in DOMAIN block_map
    THEN [err |-> "", block |-> block_map[id]]
    ELSE [err |-> "Block", block |-> Block(id, <<>>)]

\* add_fn_to_dot up to the edge into the entry block: function.blocks[0]
\* panics on a function without blocks.
EmitHeader ==
    /\ pc = "header"
    /\ IF Len(blocks) = 0
       THEN /\ pc' = "panic" /\ panic' = "index"
            /\ UNCHANGED <<nodes, edges>>
       ELSE /\ nodes' = Append(nodes, FnId)
            /\ edges' = Append(edges, [from |-> FnId, to |-> blocks[1].label,
                                       style |-> "solid"])
            /\ pc' = "nodes" /\ UNCHANGED panic
    /\ UNCHANGED <<overflow_checks, cvars, blocks, op, block_map, arg, stack,
                   visited, order>>

\* Ascending sequence of a finite set of integers (BTreeMap iteration order).
RECURSIVE Ascending(_)
Ascending(S) ==
    IF S = {} THEN <<>>
    ELSE LET m == CHOOSE x \in S : \A y \in S : x <= y
         IN <<m>> \o Ascending(S \ {m})

\* add_fn_to_dot, the loop over block_map: one node per key, in key order
EmitNodes ==
    /\ pc = "nodes"
    /\ nodes' = nodes \o Ascending(DOMAIN block_map)
    /\ pc' = "traverse"
    /\ UNCHANGED <<overflow_checks, cvars, blocks, op, block_map, arg, stack,
                   visited, order, edges, panic>>

\* what traverse returns to: add_fn_to_dot still writes the closing brace
AfterTraverse == IF op = "add_fn_to_dot" THEN "footer" ELSE "done"

\* PetSpirv::traverse: a new HashSet, then traverse_from on the first block
TraverseStart ==
    /\ pc = "traverse"
    /\ visited' = {}
    /\ IF Len(blocks) = 0
       THEN pc' = AfterTraverse /\ UNCHANGED arg
       ELSE pc' = "call" /\ arg' = blocks[1].label
    /\ UNCHANGED <<overflow_checks, cvars, blocks, op, block_map, stack, order,
                   nodes, edges, panic>>

\* the closure as a slip would write it: the merge edge left out
VisitEdgesSolidOnly(node) ==
    LET ss == successors(from_basic_block(get_block(node).block, overflow_checks))
    IN [k \in 1..Len(ss) |-> [from |-> node, to |-> ss[k], style |-> "solid"]]

\* The edge lines the closure of add_fn_to_dot writes for node: the dashed
\* merge edge first, then one line per successor.
VisitEdges(node) ==
    LET terminator == from_basic_block(get_block(node).block, overflow_checks)
        m == merge_block(terminator)
        ss == successors(terminator)
    IN (IF m = None THEN <<>>
        ELSE <<[from |-> node, to |-> CHOOSE x \in m : TRUE, style |-> "dashed"]>>)
       \o [k \in 1..Len(ss) |-> [from |-> node, to |-> ss[k], style |-> "solid"]]

\* traverse_from up to its loop: insert, get_block, from_basic_block, f
TraverseFrom ==
    /\ pc = "call"
    /\ visited' = visited \cup {arg}
    /\ LET root == get_block(arg)
           terminator == from_basic_block(root.block, overflow_checks)
       IN IF root.err # ""
          THEN /\ pc' = "panic" /\ panic' = root.err
               /\ UNCHANGED <<stack, order, edges>>
          ELSE IF terminator.kind = "Panic"
          THEN /\ pc' = "panic" /\ panic' = terminator.why
               /\ UNCHANGED <<stack, order, edges>>
          ELSE /\ order' = Append(order, arg)
               /\ edges' = IF op = "add_fn_to_dot"
                           THEN edges \o VisitEdges(arg) ELSE edges
               /\ stack' = Append(stack, [root_id |-> arg,
                                          iter |-> successors(terminator)])
               /\ pc' = "loop" /\ UNCHANGED panic
    /\ UNCHANGED <<overflow_checks, cvars, blocks, op, block_map, arg, nodes>>

\* the loop as a slip would write it: successors taken from the back
LoopNextFromBack ==
    /\ pc = "loop"
    /\ stack[Len(stack)].iter # <<>>
    /\ LET top == stack[Len(stack)]
           next == top.iter[Len(top.iter)]
       IN /\ stack' = [stack EXCEPT ![Len(stack)].iter =
                                      SubSeq(top.iter, 1, Len(top.iter) - 1)]
          /\ IF next \in visited
             THEN UNCHANGED <<pc, arg, panic>>
             ELSE IF Len(stack) >= StackLimit
             THEN pc' = "panic" /\ panic' = "stack" /\ UNCHANGED arg
             ELSE pc' = "call" /\ arg' = next /\ UNCHANGED panic
    /\ UNCHANGED <<overflow_checks, cvars, blocks, op, block_map, visited,
                   order, nodes, edges>>

\* the loop as a slip would write it: no test of the visited set
LoopNextNoVisitedCheck ==
    /\ pc = "loop"
    /\ stack[Len(stack)].iter # <<>>
    /\ LET top == stack[Len(stack)]
           next == Head(top.iter)
       IN /\ stack' = [stack EXCEPT ![Len(stack)].iter = Tail(top.iter)]
          /\ IF Len(stack) >= StackLimit
             THEN pc' = "panic" /\ panic' = "stack" /\ UNCHANGED arg
             ELSE pc' = "call" /\ arg' = next /\ UNCHANGED panic
    /\ UNCHANGED <<overflow_checks, cvars, blocks, op, block_map, visited,
                   order, nodes, edges>>

\* traverse_from, one turn of `for bb in terminator.successors()`
LoopNext ==
    /\ pc = "loop"
    /\ stack[Len(stack)].iter # <<>>
    /\ LET top == stack[Len(stack)]
           next == Head(top.iter)
       IN /\ stack' = [stack EXCEPT ![Len(stack)].iter = Tail(top.iter)]
          /\ IF next \in visited
             THEN UNCHANGED <<pc, arg, panic>>
             ELSE IF Len(stack) >= StackLimit
             THEN pc' = "panic" /\ panic' = "stack" /\ UNCHANGED arg
             ELSE pc' = "call" /\ arg' = next /\ UNCHANGED panic
    /\ UNCHANGED <<overflow_checks, cvars, blocks, op, block_map, visited,
                   order, nodes, edges>>

\* traverse_from returns when its iterator is exhausted
Return ==
    /\ pc = "loop"
    /\ stack[Len(stack)].iter = <<>>
    /\ stack' = SubSeq(stack, 1, Len(stack) - 1)
    /\ pc' = IF Len(stack) = 1 THEN AfterTraverse ELSE "loop"
    /\ UNCHANGED <<overflow_checks, cvars, blocks, op, block_map, arg, visited,
                   order, nodes, edges, panic>>

\* add_fn_to_dot, the closing brace
EmitFooter ==
    /\ pc = "footer"
    /\ pc' = "done"
    /\ UNCHANGED <<overflow_checks, cvars, blocks, op, block_map, arg, stack,
                   visited, order, nodes, edges, panic>>

Next ==
    \/ New
    \/ EmitHeader
    \/ EmitNodes
    \/ TraverseStart
    \/ TraverseFrom
    \/ LoopNext
    \/ Return
    \/ EmitFooter

Spec == Init /\ [][Next]_vars

\* The run is one thread that keeps executing until it returns or aborts.
FairSpec == Spec /\ WF_vars(Next)


\* ======================================================================
\* Properties
\* ======================================================================
Range(s) == {s[i] : i \in DOMAIN s}
NoDuplicates(s) == \A i, j \in DOMAIN s : s[i] = s[j] => i = j
Last(s) == s[Len(s)]

\* successors() of the block with this id, as the traversal computes it
Succs(id) ==
    IF id \in DOMAIN block_map
    THEN successors(from_basic_block(block_map[id], overflow_checks))
    ELSE <<>>

\* Every successor id of every block of the function is in the block index.
SuccessorsExist ==
    \A id \in DOMAIN block_map : Range(Succs(id)) \subseteq DOMAIN block_map

RECURSIVE Closure(_)
Closure(S) ==
    LET N == S \cup UNION {Range(Succs(b)) : b \in S}
    IN IF N = S THEN S ELSE Closure(N)

\* The ids reachable from the first block by following successors().
Reachable == IF Len(blocks) = 0 THEN {} ELSE Closure({blocks[1].label})

Halted == pc \in {"done", "panic"}
Built == pc \notin {"idle", "new"}

\* ------------------------------------------------------------------ C1
\* C1: for every function whose successor ids all exist in the block index,
\* a run of traverse has called the callback exactly once for each block
\* reachable from the first block, and for no other block.
TraverseVisitsReachableOnce ==
    (Halted /\ SuccessorsExist) =>
        /\ NoDuplicates(order)
        /\ Range(order) = Reachable

\* The same without overflow checks (the build in which the usize
\* subtraction of get_merge_block wraps): this holds.
TraverseVisitsReachableOnceWrapping ==
    (~overflow_checks) => TraverseVisitsReachableOnce

\* ------------------------------------------------------------------ C2
\* The ids order[1..j-1].
Before(j) == {order[i] : i \in 1..(j - 1)}

\* First element of the sequence ss that is not in the set seen.
FirstNotIn(ss, seen) ==
    ss[CHOOSE k \in 1..Len(ss) :
         /\ ss[k] \notin seen
         /\ \A l \in 1..(k - 1) : ss[l] \in seen]

\* C2 (as amended): the visit sequence is the depth-first pre-order from the
\* entry block with successors taken left to right: it starts at the entry,
\* and each later visit is of the first not-yet-visited successor, in
\* successors() order, of the most recently visited block that still has
\* one; so a block precedes every successor that was not visited before it,
\* and when traverse returns no visited block has an unvisited successor.
VisitOrderIsDepthFirstPreorder ==
    /\ NoDuplicates(order)
    /\ Len(order) > 0 => order[1] = blocks[1].label
    /\ \A j \in 2..Len(order) :
         LET open == {i \in 1..(j - 1) :
                        ~(Range(Succs(order[i])) \subseteq Before(j))}
         IN /\ open # {}
            /\ LET i == CHOOSE x \in open : \A y \in open : y <= x
               IN order[j] = FirstNotIn(Succs(order[i]), Before(j))
    /\ pc = "done" =>
         \A i \in 1..Len(order) : Range(Succs(order[i])) \subseteq Range(order)

\* C2 (as claimed): the sequence starts at the entry and every visited block
\* is visited before any of its successors is visited.
VisitedBeforeAllSuccessors ==
    /\ Len(order) > 0 => order[1] = blocks[1].label
    /\ \A i, j \in 1..Len(order) :
         (i # j /\ order[j] \in Range(Succs(order[i]))) => i < j

\* A returned traversal that met an already visited successor and explored
\* two successors of one block.
WitnessPreorder ==
    /\ pc = "done"
    /\ \E i, j \in 1..Len(order) : i < j /\ order[i] \in Range(Succs(order[j]))
    /\ \E i \in 1..Len(order) :
         LET ss == Succs(order[i])
         IN /\ Len(ss) >= 2 /\ ss[1] # ss[2]
            /\ \E j, k \in 1..Len(order) :
                 i < j /\ j < k /\ order[j] = ss[1] /\ order[k] = ss[2]

\* ------------------------------------------------------------------ C8
\* C8: entering traverse_from on an id that is not in the block index aborts
\* the run in get_block: the callback is not called for that id (nothing is
\* visited or written in that step or later) and no step follows the abort;
\* no id outside the block index is ever passed to the callback.
MissingSuccessorAborts ==
    [][/\ (pc = "call" /\ arg \notin DOMAIN block_map) =>
            /\ pc' = "panic" /\ panic' = "Block"
            /\ order' = order /\ edges' = edges /\ nodes' = nodes
       /\ pc # "panic"
       /\ Range(order') \subseteq DOMAIN block_map']_vars

\* The run aborted on a missing successor after visiting some block.
WitnessMissingSuccessor ==
    /\ pc = "panic" /\ panic = "Block"
    /\ arg \notin DOMAIN block_map
    /\ Len(order) >= 1
    /\ arg \in Range(Succs(Last(order)))

\* ------------------------------------------------------------------ C9
\* C9: every run of traverse ends: it returns, or it aborts in a lookup or
\* in the classifier, and it never exhausts the stack, whatever self-loops,
\* back-edges and joins the graph has; on a function without blocks traverse
\* returns at once without calling the callback.
TraverseTerminates ==
    /\ <>(pc = "done" \/ (pc = "panic" /\ panic # "stack"))
    /\ [](SuccessorsExist /\ ~overflow_checks /\ op = "traverse" =>
            pc # "panic")
    /\ []((Len(blocks) = 0 /\ op = "traverse") =>
            (pc \in {"new", "traverse", "done"} /\ order = <<>> /\ stack = <<>>))

\* traverse returned on a graph with a self-loop and a longer cycle.
WitnessTerminatesOnCycles ==
    /\ pc = "done" /\ op = "traverse"
    /\ \E a \in Range(order) : a \in Range(Succs(a))
    /\ \E a, b \in Range(order) :
         a # b /\ b \in Range(Succs(a)) /\ a \in Closure({b})

\* ------------------------------------------------------------------ C7
Declared == Range(nodes)

\* C7: in a document written to completion, the source and the target of
\* every edge have been declared as nodes.
EdgesReferToDeclaredNodes ==
    (pc = "done" /\ op = "add_fn_to_dot") =>
        \A i \in 1..Len(edges) :
            edges[i].from \in Declared /\ edges[i].to \in Declared

\* The same for the header edge and the control-flow edges only: this holds.
SolidEdgesReferToDeclaredNodes ==
    (pc = "done" /\ op = "add_fn_to_dot") =>
        \A i \in 1..Len(edges) :
            edges[i].style = "solid" =>
                edges[i].from \in Declared /\ edges[i].to \in Declared

\* ------------------------------------------------------------------ C10
Count(s, e) == Cardinality({i \in DOMAIN s : s[i] = e})

\* The header edge has been written.
HeaderWritten ==
    op = "add_fn_to_dot" /\ pc \notin {"new", "header"} /\ panic # "index"

\* How often the document must hold the edge e.
ExpectedCount(e) ==
    (IF HeaderWritten /\ e = [from |-> FnId, to |-> blocks[1].label,
                              style |-> "solid"]
     THEN 1 ELSE 0)
    + (IF e.from \notin Range(order) THEN 0
       ELSE IF e.style = "solid" THEN Count(Succs(e.from), e.to)
       ELSE IF e.to \in merge_block(from_basic_block(block_map[e.from],
                                                     overflow_checks))
       THEN 1 ELSE 0)

\* C10: the edges written are exactly the edge from the function to the
\* entry block, one solid edge per element of successors() of each visited
\* block and one dashed edge per visited block with a merge target; every
\* block of the index gets a node; the diamond gives 4 block nodes, the
\* header edge, 4 solid edges, 1 dashed edge and the order 1, 2, 4, 3.
EdgesAreExactlyThoseOfVisitedBlocks ==
    /\ \A i \in 1..Len(edges) : Count(edges, edges[i]) = ExpectedCount(edges[i])
    /\ HeaderWritten => Len(edges) >= 1
    /\ \A b \in Range(order) :
         /\ \A k \in 1..Len(Succs(b)) :
              op = "add_fn_to_dot" =>
                [from |-> b, to |-> Succs(b)[k], style |-> "solid"] \in Range(edges)
         /\ \A m \in merge_block(from_basic_block(block_map[b], overflow_checks)) :
              op = "add_fn_to_dot" =>
                [from |-> b, to |-> m, style |-> "dashed"] \in Range(edges)
    /\ (pc = "done" /\ op = "add_fn_to_dot") =>
         /\ nodes = <<FnId>> \o Ascending(DOMAIN block_map)
         /\ DOMAIN block_map = {blocks[i].label : i \in 1..Len(blocks)}
    /\ (pc = "done" /\ op = "add_fn_to_dot" /\ blocks = Diamond) =>
         /\ order = <<1, 2, 4, 3>>
         /\ nodes = <<FnId, 1, 2, 3, 4>>
         /\ Len(edges) = 6
         /\ Range(edges) =
              {[from |-> FnId, to |-> 1, style |-> "solid"],
               [from |-> 1, to |-> 4, style |-> "dashed"],
               [from |-> 1, to |-> 2, style |-> "solid"],
               [from |-> 1, to |-> 3, style |-> "solid"],
               [from |-> 2, to |-> 4, style |-> "solid"],
               [from |-> 3, to |-> 4, style |-> "solid"]}

\* The document of the diamond has been written to completion.
WitnessDiamondDocument ==
    pc = "done" /\ op = "add_fn_to_dot" /\ blocks = Diamond /\ Len(edges) = 6


\* ======================================================================
\* Properties of the classifier (SpecClassify)
\* ======================================================================
Insts == cblock.instructions
LastInst == Insts[Len(Insts)]
BranchOpcodes == {"Branch", "BranchConditional", "Switch"}

\* Number of (value, target) pairs of an OpSwitch.
CaseCount(inst) == (Len(inst.operands) - 2) \div 2

\* The target operands of a branch instruction in the order of the SPIR-V
\* operand list, the switch default moved behind the case targets.
TargetOperands(inst) ==
    LET ops == inst.operands
    IN CASE inst.opcode = "Branch" -> <<ops[1].val>>
         [] inst.opcode = "BranchConditional" -> <<ops[2].val, ops[3].val>>
         [] inst.opcode = "Switch" ->
              [j \in 1..CaseCount(inst) |-> ops[2 + 2 * j].val] \o <<ops[2].val>>
         [] OTHER -> <<>>

\* The case values of an OpSwitch in operand order.
ValueOperands(inst) ==
    [j \in 1..CaseCount(inst) |-> inst.operands[1 + 2 * j].val]

\* The operands have the kinds and the count their opcode prescribes.
WellShapedInst(inst) ==
    LET ops == inst.operands
        kinds == [k \in 1..Len(ops) |-> ops[k].kind]
    IN CASE inst.opcode = "Branch" -> kinds = <<"IdRef">>
         [] inst.opcode = "BranchConditional" -> kinds = <<"IdRef", "IdRef", "IdRef">>
         [] inst.opcode = "Switch" ->
              /\ Len(ops) >= 2 /\ Len(ops) % 2 = 0
              /\ kinds[1] = "IdRef" /\ kinds[2] = "IdRef"
              /\ \A j \in 1..CaseCount(inst) :
                   kinds[1 + 2 * j] = "LiteralInt32" /\ kinds[2 + 2 * j] = "IdRef"
         [] inst.opcode = "SelectionMerge" -> Len(ops) >= 1 /\ kinds[1] = "IdRef"
         [] OTHER -> TRUE

WellShaped == \A k \in 1..Len(Insts) : WellShapedInst(Insts[k])

\* The terminating conditional branch or switch is immediately preceded by
\* a selection merge.
PrecededBySelectionMerge ==
    /\ Len(Insts) >= 2
    /\ LastInst.opcode \in {"BranchConditional", "Switch"}
    /\ Insts[Len(Insts) - 1].opcode = "SelectionMerge"

\* ------------------------------------------------------------------ C3
\* C3 (as claimed): for a block whose conditional branch or switch is
\* immediately preceded by a selection merge, the merge target is not an
\* element of successors().
MergeTargetIsNoSuccessor ==
    (cstep = "queried" /\ PrecededBySelectionMerge) =>
        merge \cap Range(succ) = {}

\* C3 (as amended): for such a block merge_block() is the first operand of
\* the selection merge and successors() is exactly the target operands of
\* the branch or switch, one element per operand: the merge target is never
\* added to it, and is an element of it only when it is one of those
\* operands itself.
MergeTargetIsNotAddedToSuccessors ==
    (cstep = "queried" /\ PrecededBySelectionMerge) =>
        /\ merge = {Insts[Len(Insts) - 1].operands[1].val}
        /\ Len(succ) = Len(TargetOperands(LastInst))
        /\ \A m \in merge :
             m \in Range(succ) <=> m \in Range(TargetOperands(LastInst))

\* A merge target that is also a successor (an if without else).
WitnessMergeTargetIsSuccessor ==
    /\ cstep = "queried" /\ PrecededBySelectionMerge
    /\ merge # {} /\ merge \subseteq Range(succ)

\* ------------------------------------------------------------------ C4
\* C4: for a block with well-shaped operands from_basic_block returns a
\* Terminator without aborting: End for a block without instructions or
\* whose last instruction is no Branch, BranchConditional or Switch, and the
\* terminator without merge target for a BranchConditional or Switch that is
\* the only instruction of the block.
ClassifierIsTotal ==
    (cstep # "drawn" /\ WellShaped) =>
        /\ term.kind # "Panic"
        /\ (Len(Insts) = 0 \/ LastInst.opcode \notin BranchOpcodes) => term = End
        /\ (Len(Insts) = 1 /\ LastInst.opcode \in {"BranchConditional", "Switch"}) =>
             /\ term.kind = LastInst.opcode
             /\ term.merge_block = None

\* The same without overflow checks: this holds.
ClassifierIsTotalWrapping == (~overflow_checks) => ClassifierIsTotal

\* ------------------------------------------------------------------ C5
\* C5: the successors of the terminator a block is classified as are fixed
\* by the variant: the target for Branch, the true target then the false
\* target for BranchConditional, the N case targets in operand order then
\* the default for an N-case Switch, nothing for End.
SuccessorsFollowVariant ==
    cstep = "queried" =>
        CASE term.kind = "Branch" ->
               succ = <<term.target>> /\ succ = TargetOperands(LastInst)
          [] term.kind = "BranchConditional" ->
               /\ succ = <<term.true_block, term.false_block>>
               /\ succ = TargetOperands(LastInst)
          [] term.kind = "Switch" ->
               /\ Len(succ) = CaseCount(LastInst) + 1
               /\ succ = TargetOperands(LastInst)
          [] term.kind = "End" -> succ = <<>>
          [] OTHER -> FALSE

\* A switch of three cases with a default that differs from the first case.
WitnessSwitchSuccessors ==
    /\ cstep = "queried" /\ term.kind = "Switch"
    /\ Len(succ) = 4 /\ succ[4] # succ[1]

\* ------------------------------------------------------------------ C6
\* C6: for a block whose last instruction is a well-shaped Switch, the
\* classifier produces a Switch terminator whose values are the case values
\* in operand order and whose targets are the case targets in the same
\* order followed by the default target.
SwitchListsFollowOperands ==
    (cstep # "drawn" /\ WellShaped /\ Len(Insts) > 0 /\ LastInst.opcode = "Switch") =>
        /\ term.kind = "Switch"
        /\ term.values = ValueOperands(LastInst)
        /\ term.targets = TargetOperands(LastInst)
        /\ Len(term.targets) = Len(term.values) + 1

\* The same for every switch that is not alone in its block under overflow
\* checks: this holds.
SwitchListsFollowOperandsUnlessAlone ==
    (overflow_checks /\ Len(Insts) = 1) \/ SwitchListsFollowOperands

====
